---- MODULE Spec2Model ----
(***************************************************************************)
(* Model of the dashboard component (src/App.tsx and its earlier           *)
(* iterations src/unnamed/part_000 and part_001): the project list and the *)
(* zip-to-preview pipeline with the remote project service                 *)
(* (src/unnamed/part_001, lines 417-485), the note logger with the remote  *)
(* table it writes, and the startup effect.                                *)
(*                                                                         *)
(* React state is modelled as committed after every handler or promise     *)
(* continuation: a handler runs to completion, its functional updaters are *)
(* applied in the order they were queued, and the next event sees the      *)
(* result.  Every await is a separate step.                                *)
(*                                                                         *)
(* Optional values (null / undefined) are 0- or 1-element tuples.  Optional*)
(* fields of a record (previewUrl, fileSystem) are keys that are absent    *)
(* from the record's domain, as in the object literal of the source.       *)
(* Strings that the code inspects (paths, log lines) are tuples, so that   *)
(* endsWith / startsWith are computed and not assumed.                     *)
(***************************************************************************)
EXTENDS Integers, Sequences, FiniteSets, TLC

\* Bound of the exploration: the number of handleRunProject calls that pass
\* the early return.
MaxRuns == 2

\* Bound of the exploration: the number of clicks on the refresh button (the
\* refresh of the mount effect is not counted).
MaxRefresh == 1

\* Bound of the exploration: the number of handlePromptSubmit calls that pass
\* the early return.
MaxSubmits == 2

\* Bound of the exploration: the number of clicks on the refresh button of
\* the history panel.
MaxFetches == 1

VARIABLES
    variant,          \* which iteration of the component is running
    svc,              \* which iteration of lib/projectsService is linked
    activeTab,        \* useState<'logger' | 'projects'>('logger')
    mounted,          \* the mount effect has run
    refreshes,        \* clicks on the refresh button so far
    projects,         \* useState<LocalProject[]>
    selectedProject,  \* useState<LocalProject | null>, <<>> is null
    isLoadingList,    \* useState(false)
    apiError,         \* useState<string | null>, <<>> is null
    listPending,      \* a projectsService.listProjects() promise is pending
    runs,             \* the handleRunProject invocations, in call order
    objectUrls,       \* the blobs registered by URL.createObjectURL
    isInitializing,   \* useState(true) (App.tsx)
    initAwaits,       \* the promises init's Promise.allSettled waits for;
                      \* << >> while init is not suspended there
    fetches,          \* the fetchHistory calls whose continuation has not run
    prompt,           \* useState('')
    dbStatus,         \* useState<Status>(Status.IDLE)
    history,          \* useState<PromptEntry[]>([])
    table,            \* the rows of the remote table 'prompts'
    clock,            \* the time, read when a created_at is assigned
    submits,          \* the handlePromptSubmit calls that have not finished
    submitCount,      \* handlePromptSubmit calls that passed the early return
    timers,           \* pending setTimeout(() => setDbStatus(Status.IDLE), ...)
    fetchClicks,      \* clicks on the history refresh button so far
    ev                \* the step just taken (history, read by the properties)

\* the state of the startup effect and of the history requests
startupVars == <<isInitializing, initAwaits, fetches>>

\* the state of the note logger and of the table it writes
loggerVars == <<prompt, dbStatus, history, table, clock, submits, submitCount,
                timers, fetchClicks>>

\* the state of the project list and of the zip-to-preview pipeline
pipelineVars == <<refreshes, projects, selectedProject, isLoadingList, apiError,
                  listPending, runs, objectUrls>>

vars == <<variant, svc, activeTab, mounted, refreshes, projects, selectedProject, isLoadingList,
          apiError, listPending, runs, objectUrls, startupVars, loggerVars, ev>>

-----------------------------------------------------------------------------
(* Strings the code looks into *)

\* 'index.html' as a character sequence
IndexHtml == <<"i","n","d","e","x",".","h","t","m","l">>

\* 'package.json' as a character sequence
PackageJson == <<"p","a","c","k","a","g","e",".","j","s","o","n">>

\* String.prototype.toLowerCase on one character (the upper-case letters the
\* catalogue uses)
LowerChar(c) ==
    CASE c = "I" -> "i" [] c = "N" -> "n" [] c = "D" -> "d" [] c = "E" -> "e"
      [] c = "X" -> "x" [] c = "H" -> "h" [] c = "T" -> "t" [] c = "M" -> "m"
      [] c = "L" -> "l" [] OTHER -> c

\* String.prototype.toLowerCase
ToLowerCase(s) == [i \in 1..Len(s) |-> LowerChar(s[i])]

\* String.prototype.endsWith
EndsWith(s, suffix) ==
    /\ Len(s) >= Len(suffix)
    /\ SubSeq(s, Len(s) - Len(suffix) + 1, Len(s)) = suffix

\* String.prototype.startsWith('!') on a log line (a tuple of text chunks
\* whose first chunk is the line's first character)
StartsWithBang(line) == Len(line) >= 1 /\ line[1] = "!"

-----------------------------------------------------------------------------
(* The remote project source: what the server may answer *)

\* Paths of archive entries
PathIndex    == IndexHtml
PathPackage  == PackageJson
PathReadme   == <<"r","e","a","d","m","e",".","m","d">>
PathAppIndex == <<"a","p","p","/">> \o IndexHtml
PathLibIndex == <<"l","i","b","/">> \o IndexHtml
PathAppDir   == <<"a","p","p","/">>
PathData     == <<"d","a","t","a",".","b","i","n">>
PathNested   == <<"d","e","e","p","l","y","/","n","e","s","t","e","d","/">> \o IndexHtml
PathUpper    == <<"I","N","D","E","X",".","H","T","M","L">>
PathMyIndex  == <<"m","y">> \o IndexHtml
PathBak      == <<"f","o","o","/">> \o IndexHtml \o <<".","b","a","k">>

\* One zip entry: JSZip's ZipObject (name, dir) with the outcome of
\* file.async('string')
Entry(path, dir, ok, content) ==
    [path |-> path, dir |-> dir, ok |-> ok, content |-> content]

\* The blobs a download may deliver.  wellFormed = FALSE: JSZip.loadAsync
\* rejects.  entries are in the archive's central-directory order.
Blobs ==
    [ good     |-> [size |-> 2048, wellFormed |-> TRUE, entries |->
                     << Entry(PathIndex, FALSE, TRUE, "<h1>hi</h1>"),
                        Entry(PathPackage, FALSE, TRUE, "{}") >>],
      twoIndex |-> [size |-> 3000, wellFormed |-> TRUE, entries |->
                     << Entry(PathAppDir, TRUE, TRUE, ""),
                        Entry(PathAppIndex, FALSE, TRUE, "<p>x</p>"),
                        Entry(PathLibIndex, FALSE, TRUE, "<p>y</p>") >>],
      noIndex  |-> [size |-> 512, wellFormed |-> TRUE, entries |->
                     << Entry(PathReadme, FALSE, TRUE, "hello") >>],
      badEntry |-> [size |-> 1024, wellFormed |-> TRUE, entries |->
                     << Entry(PathIndex, FALSE, TRUE, "<h1>hi</h1>"),
                        Entry(PathData, FALSE, FALSE, "") >>],
      notZip   |-> [size |-> 100, wellFormed |-> FALSE, entries |-> << >>],
      nested   |-> [size |-> 700, wellFormed |-> TRUE, entries |->
                     << Entry(PathNested, FALSE, TRUE, "<h1>n</h1>"),
                        Entry(PathPackage, FALSE, TRUE, "{}") >>],
      upper    |-> [size |-> 710, wellFormed |-> TRUE, entries |->
                     << Entry(PathUpper, FALSE, TRUE, "<h1>U</h1>"),
                        Entry(PathPackage, FALSE, TRUE, "{}") >>],
      myIndex  |-> [size |-> 720, wellFormed |-> TRUE, entries |->
                     << Entry(PathMyIndex, FALSE, TRUE, "<h1>my</h1>"),
                        Entry(PathPackage, FALSE, TRUE, "{}") >>],
      bak      |-> [size |-> 730, wellFormed |-> TRUE, entries |->
                     << Entry(PathBak, FALSE, TRUE, "<h1>old</h1>"),
                        Entry(PathPackage, FALSE, TRUE, "{}") >>],
      emptyIndex |-> [size |-> 740, wellFormed |-> TRUE, entries |->
                     << Entry(PathIndex, FALSE, TRUE, ""),
                        Entry(PathPackage, FALSE, TRUE, "{}") >>] ]

\* The blobs of the exploration of the whole program
BlobNames == {"good", "twoIndex", "noIndex", "badEntry", "notZip"}

\* The blobs of the exploration of validation and rendering: archives that
\* differ in the path and the content of their entry point
PathBlobNames ==
    {"good", "twoIndex", "nested", "upper", "myIndex", "bak", "emptyIndex"}

\* RemoteProject: { id, files }
Remote(id, files) == [id |-> id, files |-> files]

\* The listings GET /projects/ may return
Listings ==
    { << Remote("1", <<"site.zip">>), Remote("2", <<"app.zip", "old.zip">>) >>,
      << Remote("2", << >>) >> }

\* How a fetch may fail: a non-success HTTP status, or no response at all
FetchFailures == {"http", "network"}

\* What a GET /projects/ may come to: a listing (kind "ok"), or a failure
ListOutcomes ==
    {[kind |-> "ok", body |-> l] : l \in Listings}
        \cup {[kind |-> f, body |-> << >>] : f \in FetchFailures}

\* What a GET /projects/<id>/download/<file> may come to: a blob, or a failure
DownloadOutcomes ==
    {[kind |-> "ok", body |-> b] : b \in BlobNames}
        \cup {[kind |-> f, body |-> ""] : f \in FetchFailures}

-----------------------------------------------------------------------------
(* The remote table 'prompts' *)

\* the session id of this browser (localStorage 'prompt_session_id') and the
\* session id of another browser
SessionId == "sess-a"
OtherSessionId == "sess-b"

\* PromptEntry: { id, session_id, mensagem, created_at }
PromptEntry(id, session, mensagem, at) ==
    [id |-> id, session_id |-> session, mensagem |-> mensagem, created_at |-> at]

-----------------------------------------------------------------------------
(* Log lines and error messages *)

\* (blob.size / 1024).toFixed(1): kilobytes rounded to one decimal, as the
\* chunks <<integer part, ".", decimal digit>>
KiloBytes(size) ==
    LET tenths == (size * 10 + 512) \div 1024
    IN  <<tenths \div 10, ".", tenths % 10>>

\* the log line of a freshly listed project
SyncLine ==
    IF variant = "App" THEN <<"P", "rojeto sincronizado e pronto.">>
    ELSE <<"P", "rojeto sincronizado da API remota.">>

\* the line of the 'downloading' write
LineDownloading(fileName) ==
    IF variant = "App" THEN <<">", " Baixando pacote: ", fileName>>
    ELSE <<">", " Baixando arquivo: ", fileName, "...">>

\* the line of the 'extracting' write
LineExtracting(blob) ==
    IF variant = "App"
    THEN <<">", " ZIP recebido (">> \o KiloBytes(Blobs[blob].size)
             \o <<" KB). Extraindo...">>
    ELSE <<">", " ZIP recebido. Iniciando extracao...">>

\* the line of the 'validating' write (part_000, part_001)
LineValidating == <<">", " Validando estrutura (Vite/React)...">>

\* the lines of the 'running' write
LinesRunning ==
    IF variant = "App"
    THEN << <<">", " Executando sandbox em ambiente virtual.">> >>
    ELSE << <<">", " Renderizando preview via BlobURL.">>,
            <<">", " Sucesso.">> >>

\* the error line without its sigil
LineError_NoSigil(message) == <<" ERRO: ", message>>

\* the line of the catch block: `! ERRO: ${e.message}`
LineError(message) == <<"!", " ERRO: ", message>>

\* e.message of the Error thrown when validation fails
MsgNoIndex ==
    IF variant = "App" THEN "Arquivo 'index.html' nao encontrado no ZIP."
    ELSE "Estrutura ZIP invalida."

\* e.message of a rejected JSZip.loadAsync
MsgNotZip == "Can't find end of central directory : is this a zip file ?"

\* e.message of a rejected file.async('string')
MsgBadEntry == "Corrupted zip : CRC32 mismatch"

\* e.message of a rejected projectsService.downloadZip
MsgDownload(failure) ==
    IF failure = "network" THEN "Failed to fetch"
    ELSE IF svc = 1 THEN "Erro ao baixar arquivo (status)"
    ELSE "Falha ao baixar ZIP"

\* the banner text of a failed listing
MsgApiError ==
    IF variant = "App" THEN "A API de Projetos (ngrok) parece estar offline."
    ELSE "Nao foi possivel conectar a API de projetos. Verifique o servidor."

-----------------------------------------------------------------------------
(* Records and the updaters of updateLocal / update *)

ev0 == [kind |-> "init", run |-> 0, id |-> "", wrote |-> << >>]

\* a step that calls no updateLocal
Event(kind, id) == [kind |-> kind, run |-> 0, id |-> id, wrote |-> << >>]

\* a step of run r that calls updateLocal with the statuses `wrote`, in order
WriteEvent(r, id, wrote) ==
    [kind |-> "write", run |-> r, id |-> id, wrote |-> wrote]

\* the object refreshProjectList maps a RemoteProject to
Mapped(p) ==
    [id |-> p.id, name |-> <<"Project #", p.id>>, files |-> p.files,
     status |-> "available", logs |-> <<SyncLine>>]

\* { ...p, ...partial }: the partial's logs replace the record's
Spread_Replace(p, partial) ==
    [k \in (DOMAIN p) \cup (DOMAIN partial) |->
        IF k \in DOMAIN partial THEN partial[k] ELSE p[k]]

\* { ...p, ...partial, logs: partial.logs ? [...p.logs, ...partial.logs] : p.logs }
Spread(p, partial) ==
    [k \in (DOMAIN p) \cup (DOMAIN partial) |->
        IF k = "logs"
        THEN IF "logs" \in DOMAIN partial THEN p.logs \o partial.logs ELSE p.logs
        ELSE IF k \in DOMAIN partial THEN partial[k] ELSE p[k]]

\* prev => prev.map(p => ({...})): the id test left out
UpdateProjects_All(prev, id, partial) ==
    [i \in 1..Len(prev) |-> Spread(prev[i], partial)]

\* prev => prev.map(p => p.id === project.id ? {...} : p)
UpdateProjects(prev, id, partial) ==
    [i \in 1..Len(prev) |->
        IF prev[i].id = id THEN Spread(prev[i], partial) ELSE prev[i]]

\* prev => prev?.id === project.id ? {...} : a null prev adopts the project
UpdateSelected_Adopt(prev, id, partial) ==
    IF prev = << >>
    THEN << [id |-> id, status |-> partial.status, logs |-> partial.logs] >>
    ELSE IF prev[1].id = id THEN << Spread(prev[1], partial) >> ELSE prev

\* prev => prev?.id === project.id ? {...} : prev
UpdateSelected(prev, id, partial) ==
    IF prev # << >> /\ prev[1].id = id
    THEN << Spread(prev[1], partial) >>
    ELSE prev

\* updateLocal(partial) applied n times in one continuation: the partials
\* are folded over the state in the order of the calls
RECURSIVE ApplyProjects(_, _, _)
ApplyProjects(prev, id, partials) ==
    IF partials = << >> THEN prev
    ELSE ApplyProjects(UpdateProjects(prev, id, Head(partials)), id, Tail(partials))

RECURSIVE ApplySelected(_, _, _)
ApplySelected(prev, id, partials) ==
    IF partials = << >> THEN prev
    ELSE ApplySelected(UpdateSelected(prev, id, Head(partials)), id, Tail(partials))

\* the calls of updateLocal made by one step of run r on project id
UpdateLocal(r, id, partials) ==
    /\ projects' = ApplyProjects(projects, id, partials)
    /\ selectedProject' = ApplySelected(selectedProject, id, partials)
    /\ ev' = WriteEvent(r, id, [i \in 1..Len(partials) |-> partials[i].status])

\* the partial of the catch block
ErrorPartial(message) == [status |-> "error", logs |-> <<LineError(message)>>]

-----------------------------------------------------------------------------
(* Initial state: the useState initial values *)

\* The builds explored: the current component with the service that
\* swallows a non-success listing status (it shares the component's
\* defensive `remote || []`), and the earlier component with the service
\* that throws on it.
Builds == { <<"App", 1>>, <<"part_000", 2>> }

Init ==
    /\ \E b \in Builds : variant = b[1] /\ svc = b[2]
    /\ activeTab = "logger"
    /\ mounted = FALSE
    /\ refreshes = 0
    /\ projects = << >>
    /\ selectedProject = << >>
    /\ isLoadingList = FALSE
    /\ apiError = << >>
    /\ listPending = FALSE
    /\ runs = << >>
    /\ objectUrls = << >>
    /\ isInitializing = (variant = "App")
    /\ initAwaits = << >>
    /\ fetches = << >>
    /\ prompt = << >>
    /\ dbStatus = "idle"
    /\ history = << >>
    /\ table = << >>
    /\ clock = 1
    /\ submits = << >>
    /\ submitCount = 0
    /\ timers = 0
    /\ fetchClicks = 0
    /\ ev = ev0

-----------------------------------------------------------------------------
(* refreshProjectList and the mount effect *)

\* refreshProjectList up to its await: setIsLoadingList(true); setApiError(null)
RefreshStart ==
    /\ isLoadingList' = TRUE
    /\ apiError' = << >>
    /\ listPending' = TRUE

\* a fetchHistory call suspended at its await: whether init waits for it
NewFetch(byInit) == [init |-> byInit]

\* fetchHistory up to its await
FetchStart(byInit) == fetches' = Append(fetches, NewFetch(byInit))

\* the mount effect, after the first render.  App.tsx: init() calls
\* fetchHistory() and refreshProjectList() and suspends at
\* `await Promise.allSettled([...])`.  part_000, part_001: the effect calls
\* refreshProjectList() and fetchHistory() and waits for neither.
Mount ==
    /\ ~mounted
    /\ mounted' = TRUE
    /\ RefreshStart
    /\ FetchStart(variant = "App")
    /\ initAwaits' = IF variant = "App" THEN << {"history", "list"} >> ELSE << >>
    /\ ev' = Event("mount", "")
    /\ UNCHANGED <<isInitializing, loggerVars>>
    /\ UNCHANGED <<variant, svc, activeTab, refreshes, projects, selectedProject, runs,
                   objectUrls>>

\* the refresh button: onClick={refreshProjectList} disabled={isLoadingList}
RefreshButton ==
    /\ activeTab = "projects"
    /\ mounted
    /\ ~isLoadingList
    /\ refreshes < MaxRefresh
    /\ refreshes' = refreshes + 1
    /\ RefreshStart
    /\ ev' = Event("refresh", "")
    /\ UNCHANGED <<startupVars, loggerVars>>
    /\ UNCHANGED <<variant, svc, activeTab, mounted, projects, selectedProject, runs,
                   objectUrls>>

\* projectsService.listProjects(): <<remote>> when it returns, << >> when it
\* throws.  The first service returns [] on a non-success status.
ListProjects(outcome) ==
    IF outcome.kind = "ok" THEN << outcome.body >>
    ELSE IF outcome.kind = "http" /\ svc = 1 THEN << << >> >>
    ELSE << >>

\* a promise init's Promise.allSettled waits for has settled
Settled(awaits, promise) ==
    IF awaits = << >> THEN awaits ELSE << awaits[1] \ {promise} >>

\* the continuation of refreshProjectList after await listProjects(); the
\* promise of the call then fulfils (refreshProjectList catches everything).
\* The refresh button is disabled while isLoadingList, so the first call to
\* complete is the one init made.
RefreshDone(outcome) ==
    /\ listPending
    /\ listPending' = FALSE
    /\ initAwaits' = Settled(initAwaits, "list")
    /\ UNCHANGED <<isInitializing, fetches, loggerVars>>
    /\ LET remote == ListProjects(outcome)
       IN  IF remote # << >>
           THEN /\ projects' = [i \in 1..Len(remote[1]) |-> Mapped(remote[1][i])]
                /\ apiError' = apiError
                /\ ev' = Event("listed", "")
           ELSE /\ apiError' = << MsgApiError >>
                /\ projects' = projects
                /\ ev' = Event("listFailed", "")
    /\ isLoadingList' = FALSE
    /\ UNCHANGED <<variant, svc, activeTab, mounted, refreshes, selectedProject, runs, objectUrls>>

-----------------------------------------------------------------------------
(* Tabs and selection *)

\* the tabs of the navigation bar
Tabs == {"logger", "projects"}

\* onClick={() => setActiveTab(tab)}: the projects tab's buttons are rendered
\* only while activeTab is 'projects'
SwitchTab(tab) ==
    /\ activeTab # tab
    /\ activeTab' = tab
    /\ ev' = Event("tab", "")
    /\ UNCHANGED <<startupVars, loggerVars>>
    /\ UNCHANGED <<variant, svc, mounted, refreshes, projects, selectedProject,
                   isLoadingList, apiError, listPending, runs, objectUrls>>

\* project card: onClick={() => setSelectedProject(proj)}
Select(i) ==
    /\ activeTab = "projects"
    /\ i \in 1..Len(projects)
    /\ selectedProject' = << projects[i] >>
    /\ ev' = Event("select", projects[i].id)
    /\ UNCHANGED <<startupVars, loggerVars>>
    /\ UNCHANGED <<variant, svc, activeTab, mounted, refreshes, projects, isLoadingList, apiError,
                   listPending, runs, objectUrls>>

\* the close button also abandoning the invocations of the project
Deselect_Abort ==
    /\ activeTab = "projects"
    /\ selectedProject # << >>
    /\ selectedProject' = << >>
    /\ runs' = [r \in 1..Len(runs) |->
                  IF runs[r].id = selectedProject[1].id /\ runs[r].pc # "done"
                  THEN [runs[r] EXCEPT !.pc = "aborted"] ELSE runs[r]]
    /\ ev' = Event("deselect", selectedProject[1].id)
    /\ UNCHANGED <<startupVars, loggerVars>>
    /\ UNCHANGED <<variant, svc, activeTab, mounted, refreshes, projects, isLoadingList, apiError,
                   listPending, objectUrls>>

\* onClick={() => setSelectedProject(null)}
Deselect ==
    /\ activeTab = "projects"
    /\ selectedProject # << >>
    /\ selectedProject' = << >>
    /\ ev' = Event("deselect", selectedProject[1].id)
    /\ UNCHANGED <<startupVars, loggerVars>>
    /\ UNCHANGED <<variant, svc, activeTab, mounted, refreshes, projects, isLoadingList, apiError,
                   listPending, runs, objectUrls>>

-----------------------------------------------------------------------------
(* The note logger: the textarea, handlePromptSubmit, fetchHistory and init *)

\* String.prototype.trim on a sequence of characters (blanks are the only
\* white space typed)
RECURSIVE TrimStart(_)
TrimStart(s) == IF s # << >> /\ Head(s) = " " THEN TrimStart(Tail(s)) ELSE s

RECURSIVE TrimEnd(_)
TrimEnd(s) ==
    IF s # << >> /\ s[Len(s)] = " " THEN TrimEnd(SubSeq(s, 1, Len(s) - 1)) ELSE s

Trim(s) == TrimEnd(TrimStart(s))

\* the texts typed into the textarea
Prompts == { << >>, <<" ">>, <<"a">>, <<" ", "b">> }

\* onChange={(e) => setPrompt(e.target.value)}
SetPrompt(text) ==
    /\ activeTab = "logger"
    /\ mounted
    /\ prompt # text
    /\ prompt' = text
    /\ ev' = Event("prompt", "")
    /\ UNCHANGED <<dbStatus, history, table, clock, submits, submitCount, timers,
                   fetchClicks>>
    /\ UNCHANGED <<variant, svc, activeTab, mounted, pipelineVars, startupVars>>

\* a handlePromptSubmit call suspended at an await: the await (pc), the prompt
\* its closure holds, the reply of the table once the pending query has been
\* served (<< >>: not yet), the row the lookup found (<< >>: null) and the
\* created_at its update sends
NewSubmit(mensagem) ==
    [pc |-> "lookup", mensagem |-> mensagem, reply |-> << >>,
     existing |-> << >>, at |-> 0]

\* s with its k-th element removed
Without(s, k) == SubSeq(s, 1, k - 1) \o SubSeq(s, k + 1, Len(s))

\* handlePromptSubmit up to `await supabase...maybeSingle()`
HandlePromptSubmit ==
    IF Trim(prompt) = << >>
    THEN /\ ev' = Event("return", "")
         /\ UNCHANGED <<dbStatus, submits, submitCount>>
    ELSE /\ submitCount < MaxSubmits
         /\ submitCount' = submitCount + 1
         /\ dbStatus' = "loading"
         /\ submits' = Append(submits, NewSubmit(prompt))
         /\ ev' = Event("submit", "")

\* disabled={dbStatus === Status.LOADING || !prompt.trim()}
SubmitDisabled == dbStatus = "loading" \/ Trim(prompt) = << >>

\* the submit button of the form: a click on the disabled button submits
\* nothing
SubmitButton ==
    /\ activeTab = "logger"
    /\ mounted
    /\ ~SubmitDisabled
    /\ HandlePromptSubmit
    /\ UNCHANGED <<prompt, history, table, clock, timers, fetchClicks>>
    /\ UNCHANGED <<variant, svc, activeTab, mounted, pipelineVars, startupVars>>

\* how a query may fail: "error" is a reply { data: null, error }, "throw" a
\* rejected promise
QueryFailures == {"error", "throw"}

\* the rows of a session
RowsOf(rows, session) == {i \in 1..Len(rows) : rows[i].session_id = session}

\* select('id').eq('session_id', sessionId).maybeSingle(): the row's id, null
\* (<< >>) when no row matches, and an error when more than one does
MaybeSingle(rows, session) ==
    LET hits == RowsOf(rows, session)
    IN  IF hits = {} THEN [kind |-> "ok", data |-> << >>]
        ELSE IF Cardinality(hits) = 1
        THEN [kind |-> "ok", data |-> << rows[CHOOSE i \in hits : TRUE].id >>]
        ELSE [kind |-> "error", data |-> << >>]

\* the table serves the lookup of the k-th pending submit, or the request
\* fails
LookupServed(k, outcome) ==
    /\ k \in 1..Len(submits)
    /\ submits[k].pc = "lookup"
    /\ submits[k].reply = << >>
    /\ submits' = [submits EXCEPT ![k].reply =
          << IF outcome = "ok" THEN MaybeSingle(table, SessionId)
             ELSE [kind |-> outcome, data |-> << >>] >>]
    /\ ev' = Event("lookupServed", "")
    /\ UNCHANGED <<prompt, dbStatus, history, table, clock, submitCount, timers,
                   fetchClicks>>
    /\ UNCHANGED <<variant, svc, activeTab, mounted, pipelineVars, startupVars>>

\* the catch block of handlePromptSubmit: setDbStatus(Status.ERROR), and in
\* App.tsx setTimeout(() => setDbStatus(Status.IDLE), 4000)
SubmitCatch(k) ==
    /\ submits' = Without(submits, k)
    /\ dbStatus' = "error"
    /\ timers' = IF variant = "App" THEN timers + 1 ELSE timers
    /\ UNCHANGED <<clock, fetches>>

\* the continuation after the lookup: `const { data: existing } = await ...`
\* reads data only, then the update or the insert is sent
LookupDone(k) ==
    /\ k \in 1..Len(submits)
    /\ submits[k].pc = "lookup"
    /\ submits[k].reply # << >>
    /\ LET reply == submits[k].reply[1]
       IN  IF reply.kind = "throw"
           THEN SubmitCatch(k)
           ELSE /\ submits' = [submits EXCEPT ![k].pc = "write",
                                              ![k].reply = << >>,
                                              ![k].existing = reply.data,
                                              ![k].at = IF reply.data = << >>
                                                        THEN 0 ELSE clock]
                /\ clock' = IF reply.data = << >> THEN clock ELSE clock + 1
                /\ UNCHANGED <<dbStatus, timers, fetches>>
    /\ ev' = Event("lookupDone", "")
    /\ UNCHANGED <<prompt, history, table, submitCount, fetchClicks>>
    /\ UNCHANGED <<variant, svc, activeTab, mounted, pipelineVars, isInitializing,
                   initAwaits>>

\* update({ mensagem, created_at }).eq('id', id)
Update(rows, id, mensagem, at) ==
    [i \in 1..Len(rows) |->
        IF rows[i].id = id
        THEN [rows[i] EXCEPT !.mensagem = mensagem, !.created_at = at]
        ELSE rows[i]]

\* the next value of the table's serial id
NextId(rows) ==
    IF rows = << >> THEN 1
    ELSE 1 + (CHOOSE m \in {rows[i].id : i \in 1..Len(rows)} :
                 \A i \in 1..Len(rows) : rows[i].id <= m)

\* insert({ mensagem, session_id }): the table assigns id and created_at
Insert(rows, session, mensagem, at) ==
    Append(rows, PromptEntry(NextId(rows), session, mensagem, at))

\* the browser of another session saves its first note
OtherInsert ==
    /\ RowsOf(table, OtherSessionId) = {}
    /\ table' = Insert(table, OtherSessionId, <<"x">>, clock)
    /\ clock' = clock + 1
    /\ ev' = Event("other", "")
    /\ UNCHANGED <<prompt, dbStatus, history, submits, submitCount, timers,
                   fetchClicks>>
    /\ UNCHANGED <<variant, svc, activeTab, mounted, pipelineVars, startupVars>>

\* the table serves the update or the insert of the k-th pending submit, or
\* the request fails.  Nothing in the repository says whether the table
\* refuses a second row of a session: a refused insert is the outcome
\* "error", an accepted one the outcome "ok".
WriteServed(k, outcome) ==
    /\ k \in 1..Len(submits)
    /\ submits[k].pc = "write"
    /\ submits[k].reply = << >>
    /\ submits' = [submits EXCEPT ![k].reply = << [kind |-> outcome, data |-> << >>] >>]
    /\ IF outcome # "ok"
       THEN UNCHANGED <<table, clock>>
       ELSE IF submits[k].existing # << >>
       THEN /\ table' = Update(table, submits[k].existing[1], submits[k].mensagem,
                               submits[k].at)
            /\ clock' = clock
       ELSE /\ table' = Insert(table, SessionId, submits[k].mensagem, clock)
            /\ clock' = clock + 1
    /\ ev' = Event("writeServed", "")
    /\ UNCHANGED <<prompt, dbStatus, history, submitCount, timers, fetchClicks>>
    /\ UNCHANGED <<variant, svc, activeTab, mounted, pipelineVars, startupVars>>

\* the continuation after the update or the insert: `if (res.error) throw
\* res.error`, then setDbStatus(Status.SUCCESS); fetchHistory();
\* setTimeout(() => setDbStatus(Status.IDLE), ...)
WriteDone(k) ==
    /\ k \in 1..Len(submits)
    /\ submits[k].pc = "write"
    /\ submits[k].reply # << >>
    /\ IF submits[k].reply[1].kind # "ok"
       THEN SubmitCatch(k)
       ELSE /\ submits' = Without(submits, k)
            /\ dbStatus' = "success"
            /\ FetchStart(FALSE)
            /\ timers' = timers + 1
            /\ clock' = clock
    /\ ev' = Event("writeDone", "")
    /\ UNCHANGED <<prompt, history, table, submitCount, fetchClicks>>
    /\ UNCHANGED <<variant, svc, activeTab, mounted, pipelineVars, isInitializing,
                   initAwaits>>

\* a timer set by handlePromptSubmit fires: setDbStatus(Status.IDLE)
TimerFires ==
    /\ timers > 0
    /\ timers' = timers - 1
    /\ dbStatus' = "idle"
    /\ ev' = Event("timer", "")
    /\ UNCHANGED <<prompt, history, table, clock, submits, submitCount, fetchClicks>>
    /\ UNCHANGED <<variant, svc, activeTab, mounted, pipelineVars, startupVars>>

\* the refresh button of the history panel: onClick={fetchHistory}
FetchButton ==
    /\ activeTab = "logger"
    /\ mounted
    /\ fetchClicks < MaxFetches
    /\ fetchClicks' = fetchClicks + 1
    /\ FetchStart(FALSE)
    /\ ev' = Event("fetch", "")
    /\ UNCHANGED <<prompt, dbStatus, history, table, clock, submits, submitCount,
                   timers>>
    /\ UNCHANGED <<variant, svc, activeTab, mounted, pipelineVars, isInitializing,
                   initAwaits>>

\* .limit(10)
HistoryLimit == 10

\* the position of the row created last
Latest(rows) ==
    CHOOSE i \in 1..Len(rows) :
        \A j \in 1..Len(rows) :
            \/ rows[j].created_at < rows[i].created_at
            \/ rows[j].created_at = rows[i].created_at /\ i <= j

\* .order('created_at', { ascending: false })
RECURSIVE OrderDescending(_)
OrderDescending(rows) ==
    IF rows = << >> THEN << >>
    ELSE <<rows[Latest(rows)]>> \o OrderDescending(Without(rows, Latest(rows)))

\* select('*').order('created_at', { ascending: false }).limit(10)
Recent(rows) ==
    LET sorted == OrderDescending(rows)
    IN  SubSeq(sorted, 1, IF Len(sorted) < HistoryLimit THEN Len(sorted)
                          ELSE HistoryLimit)

\* HistoryDone where a failed query leaves the promise init waits for
\* unsettled
HistoryDone_Unsettled(f, outcome) ==
    /\ f \in 1..Len(fetches)
    /\ history' = IF outcome = "ok" THEN Recent(table) ELSE history
    /\ fetches' = Without(fetches, f)
    /\ initAwaits' = IF fetches[f].init /\ outcome = "ok"
                     THEN Settled(initAwaits, "history")
                     ELSE initAwaits
    /\ ev' = Event("historyDone", "")
    /\ UNCHANGED <<prompt, dbStatus, table, clock, submits, submitCount, timers,
                   fetchClicks>>
    /\ UNCHANGED <<variant, svc, activeTab, mounted, pipelineVars, isInitializing>>

\* the query of the f-th pending fetchHistory is answered and the
\* continuation of the call runs: `if (!error && data) setHistory(data)`; a
\* thrown error is caught and logged.  The promise of the call then fulfils.
HistoryDone(f, outcome) ==
    /\ f \in 1..Len(fetches)
    /\ history' = IF outcome = "ok" THEN Recent(table) ELSE history
    /\ fetches' = Without(fetches, f)
    /\ initAwaits' = IF fetches[f].init THEN Settled(initAwaits, "history")
                     ELSE initAwaits
    /\ ev' = Event("historyDone", "")
    /\ UNCHANGED <<prompt, dbStatus, table, clock, submits, submitCount, timers,
                   fetchClicks>>
    /\ UNCHANGED <<variant, svc, activeTab, mounted, pipelineVars, isInitializing>>

\* the continuation of init after `await Promise.allSettled([...])`:
\* setIsInitializing(false)
InitDone ==
    /\ initAwaits = << {} >>
    /\ initAwaits' = << >>
    /\ isInitializing' = FALSE
    /\ ev' = Event("initDone", "")
    /\ UNCHANGED <<fetches, loggerVars>>
    /\ UNCHANGED <<variant, svc, activeTab, mounted, pipelineVars>>

-----------------------------------------------------------------------------
(* handleRunProject *)

\* the state of one invocation: the project it closed over (id, files[0]),
\* the await it is suspended at, the downloaded blob, the entry promises
\* still pending, the local fs object (its keys in insertion order) and the
\* number of the object URL it created (0: none)
NewRun(project) ==
    [id |-> project.id, fileName |-> project.files[1], pc |-> "download",
     blob |-> << >>, pending |-> {}, fs |-> << >>, url |-> 0]

\* handleRunProject logging the receipt before the download has returned
HandleRunProject_Eager(project) ==
    IF Len(project.files) = 0
    THEN /\ ev' = Event("return", project.id)
         /\ UNCHANGED <<projects, selectedProject, runs>>
    ELSE /\ Len(runs) < MaxRuns
         /\ runs' = Append(runs, NewRun(project))
         /\ UpdateLocal(Len(runs) + 1, project.id,
               << [status |-> "downloading",
                   logs |-> <<LineDownloading(project.files[1])>>],
                  [status |-> "extracting",
                   logs |-> <<LineExtracting("good")>>] >>)

\* handleRunProject(project) up to `await projectsService.downloadZip(...)`
HandleRunProject(project) ==
    IF Len(project.files) = 0
    THEN /\ ev' = Event("return", project.id)
         /\ UNCHANGED <<projects, selectedProject, runs>>
    ELSE /\ Len(runs) < MaxRuns
         /\ runs' = Append(runs, NewRun(project))
         /\ UpdateLocal(Len(runs) + 1, project.id,
               << [status |-> "downloading",
                   logs |-> <<LineDownloading(project.files[1])>>] >>)

\* disabled={proj.status === 'running'}
RunDisabled_OnlyRunning(proj) == proj.status = "running"

\* disabled={proj.status === 'running' || proj.status === 'downloading'}
RunDisabled(proj) == proj.status = "running" \/ proj.status = "downloading"

\* the run button of the i-th project card: a click on the disabled button
\* reaches no handler
RunButton(i) ==
    /\ activeTab = "projects"
    /\ i \in 1..Len(projects)
    /\ IF RunDisabled(projects[i])
       THEN /\ ev' = Event("rejected", projects[i].id)
            /\ UNCHANGED <<projects, selectedProject, runs>>
       ELSE HandleRunProject(projects[i])
    /\ UNCHANGED <<startupVars, loggerVars>>
    /\ UNCHANGED <<variant, svc, activeTab, mounted, refreshes, isLoadingList, apiError, listPending,
                   objectUrls>>

\* whether the preview pane renders the iframe for the selected project.
\* App.tsx: selectedProject.previewUrl ? <iframe .../> : ...
\* part_000, part_001: selectedProject.status === 'running' &&
\* selectedProject.previewUrl ? <iframe .../> : ...
IframeShown(sel) ==
    IF variant = "App" THEN "previewUrl" \in DOMAIN sel
    ELSE sel.status = "running" /\ "previewUrl" \in DOMAIN sel

\* part_000: the 'Carregar Projeto' button is rendered when the iframe is not
\* and selectedProject.status === 'available'
LoadRendered(sel) ==
    /\ ~(sel.status = "running" /\ "previewUrl" \in DOMAIN sel)
    /\ sel.status = "available"

\* part_000: onClick={() => handleRunProject(selectedProject)}; a request while
\* the button is not rendered reaches no handler
LoadButton ==
    /\ variant = "part_000"
    /\ activeTab = "projects"
    /\ selectedProject # << >>
    /\ IF LoadRendered(selectedProject[1])
       THEN HandleRunProject(selectedProject[1])
       ELSE /\ ev' = Event("rejected", selectedProject[1].id)
            /\ UNCHANGED <<projects, selectedProject, runs>>
    /\ UNCHANGED <<startupVars, loggerVars>>
    /\ UNCHANGED <<variant, svc, activeTab, mounted, refreshes, isLoadingList, apiError, listPending,
                   objectUrls>>

\* Object.keys(fs): the paths in insertion order
Keys(fs) == [i \in 1..Len(fs) |-> fs[i].path]

\* the entry-point test as k === 'index.html'
IsIndexKey_Exact(k) == k = IndexHtml

\* the entry-point test of the variant: App lower-cases the key first
IsIndexKey(k) ==
    IF variant = "App" THEN EndsWith(ToLowerCase(k), IndexHtml)
    ELSE EndsWith(k, IndexHtml)

\* findLast in place of find: the position of the last matching key
IndexKey_Last(fs) ==
    LET hits == {i \in 1..Len(fs) : IsIndexKey(Keys(fs)[i])}
    IN  IF hits = {} THEN 0 ELSE CHOOSE i \in hits : \A j \in hits : i >= j

\* Object.keys(fs).find(k => ...endsWith('index.html')): the position of the
\* first matching key, 0 for undefined
IndexKey(fs) ==
    LET hits == {i \in 1..Len(fs) : IsIndexKey(Keys(fs)[i])}
    IN  IF hits = {} THEN 0 ELSE CHOOSE i \in hits : \A j \in hits : i <= j

\* part_000: Object.keys(fs).some(k => k.endsWith('package.json'))
HasPackage(fs) == \E i \in 1..Len(fs) : EndsWith(Keys(fs)[i], PackageJson)

\* part_000: Object.keys(fs).some(k => k.endsWith('index.html'))
HasIndex(fs) == \E i \in 1..Len(fs) : EndsWith(Keys(fs)[i], IndexHtml)

\* validation with the index test only in every variant
Valid_IndexOnly(fs) ==
    IF variant = "App" THEN IndexKey(fs) # 0
    ELSE HasIndex(fs)

\* whether the run passes validation: App needs an index key; part_000 needs
\* hasIndex && hasPackage
Valid(fs) ==
    IF variant = "App" THEN IndexKey(fs) # 0
    ELSE HasIndex(fs) /\ HasPackage(fs)

\* new Blob([htmlContent], { type: 'text/html' })
HtmlBlob(htmlContent) == [type |-> "text/html", parts |-> <<htmlContent>>]

\* the handle URL.createObjectURL returns for the n-th registered blob
ObjectUrl(n) == <<"blob:", n>>

\* part_000: the update made before validation
ValidatingPartials(fs) ==
    IF variant = "App" THEN << >>
    ELSE << [status |-> "validating", logs |-> <<LineValidating>>,
             fileSystem |-> fs] >>

\* a finished invocation, with the locals its try block ended with: the blob
\* it downloaded, the fs that Promise.all left it (<< >> when it never got
\* there) and the object URL it created.  (Entry promises still pending
\* after a rejected Promise.all only ever touch the local fs.)
Finished(run, fs, url) ==
    [run EXCEPT !.pc = "done", !.pending = {}, !.fs = fs, !.url = url]

\* the catch block writing the error and starting the download again
Catch_Retry(r, fs, before, message) ==
    /\ runs' = [runs EXCEPT ![r] = [NewRun([id |-> @.id, files |-> <<@.fileName>>])
                                       EXCEPT !.blob = runs[r].blob]]
    /\ UpdateLocal(r, runs[r].id, before \o << ErrorPartial(message) >>)
    /\ UNCHANGED objectUrls

\* run r leaves its try block through catch (e): one updateLocal, no retry.
\* `before` are the updates the continuation made before it threw, fs the
\* file mapping it had joined (<< >>: none).
Catch(r, fs, before, message) ==
    /\ runs' = [runs EXCEPT ![r] = Finished(@, fs, 0)]
    /\ UpdateLocal(r, runs[r].id, before \o << ErrorPartial(message) >>)
    /\ UNCHANGED objectUrls

\* Render with the final update carrying the status and the lines only
Render_StatusOnly(r, fs) ==
    IF ~Valid(fs)
    THEN Catch(r, fs, ValidatingPartials(fs), MsgNoIndex)
    ELSE /\ objectUrls' = Append(objectUrls, HtmlBlob(fs[IndexKey(fs)].content))
         /\ runs' = [runs EXCEPT ![r] = Finished(@, fs, Len(objectUrls) + 1)]
         /\ UpdateLocal(r, runs[r].id,
               ValidatingPartials(fs) \o
               << [status |-> "running", logs |-> LinesRunning] >>)

\* the rest of the try block once `await Promise.all(filePromises)` has
\* resolved with the file mapping fs: validation, rendering and the final
\* update, in one continuation
Render(r, fs) ==
    IF ~Valid(fs)
    THEN Catch(r, fs, ValidatingPartials(fs), MsgNoIndex)
    ELSE /\ objectUrls' = Append(objectUrls, HtmlBlob(fs[IndexKey(fs)].content))
         /\ runs' = [runs EXCEPT ![r] = Finished(@, fs, Len(objectUrls) + 1)]
         /\ UpdateLocal(r, runs[r].id,
               ValidatingPartials(fs) \o
               << [status |-> "running",
                   previewUrl |-> ObjectUrl(Len(objectUrls) + 1),
                   logs |-> LinesRunning] >>)

\* the continuation after `await projectsService.downloadZip(id, fileName)`:
\* downloadZip throws on a non-success status and on a failed fetch
DownloadDone(r, outcome) ==
    /\ r \in 1..Len(runs)
    /\ runs[r].pc = "download"
    /\ IF outcome.kind # "ok"
       THEN Catch(r, << >>, << >>, MsgDownload(outcome.kind))
       ELSE /\ runs' = [runs EXCEPT ![r].pc = "load", ![r].blob = << outcome.body >>]
            /\ UpdateLocal(r, runs[r].id,
                  << [status |-> "extracting",
                      logs |-> <<LineExtracting(outcome.body)>>] >>)
            /\ UNCHANGED objectUrls
    /\ UNCHANGED <<startupVars, loggerVars>>
    /\ UNCHANGED <<variant, svc, activeTab, mounted, refreshes, isLoadingList, apiError,
                   listPending>>

\* zip.forEach: the indices of the entries with !file.dir, each of which gets
\* a file.async('string') promise
FileEntries(blob) ==
    {e \in 1..Len(Blobs[blob].entries) : ~Blobs[blob].entries[e].dir}

\* LoadDone where loadAsync resolves on any bytes, with no entries for bytes
\* that are not a zip
LoadDone_Lenient(r) ==
    /\ r \in 1..Len(runs)
    /\ runs[r].pc = "load"
    /\ LET blob == runs[r].blob[1]
       IN  IF ~Blobs[blob].wellFormed \/ FileEntries(blob) = {}
           THEN Render(r, << >>)
           ELSE /\ runs' = [runs EXCEPT ![r].pc = "decode",
                                        ![r].pending = FileEntries(blob)]
                /\ ev' = Event("loaded", runs[r].id)
                /\ UNCHANGED <<projects, selectedProject, objectUrls>>
    /\ UNCHANGED <<startupVars, loggerVars>>
    /\ UNCHANGED <<variant, svc, activeTab, mounted, refreshes, isLoadingList, apiError,
                   listPending>>

\* the continuation after `await JSZip.loadAsync(blob)`, up to
\* `await Promise.all(filePromises)`; Promise.all([]) resolves without
\* waiting for anything
LoadDone(r) ==
    /\ r \in 1..Len(runs)
    /\ runs[r].pc = "load"
    /\ LET blob == runs[r].blob[1]
       IN  IF ~Blobs[blob].wellFormed
           THEN Catch(r, << >>, << >>, MsgNotZip)
           ELSE IF FileEntries(blob) = {}
           THEN Render(r, << >>)
           ELSE /\ runs' = [runs EXCEPT ![r].pc = "decode",
                                        ![r].pending = FileEntries(blob)]
                /\ ev' = Event("loaded", runs[r].id)
                /\ UNCHANGED <<projects, selectedProject, objectUrls>>
    /\ UNCHANGED <<startupVars, loggerVars>>
    /\ UNCHANGED <<variant, svc, activeTab, mounted, refreshes, isLoadingList, apiError,
                   listPending>>

\* fs[path] = { path, type: 'text' } with the decoded content dropped
VirtualFile_NoContent(entry) == [path |-> entry.path, content |-> "", type |-> "text"]

\* fs[path] = { path, content, type: 'text' }
VirtualFile(entry) == [path |-> entry.path, content |-> entry.content, type |-> "text"]

\* DecodeEntry with the promises joined by Promise.allSettled: a rejected
\* entry is left out of fs and the run goes on
DecodeEntry_Settled(r, e) ==
    /\ r \in 1..Len(runs)
    /\ runs[r].pc = "decode"
    /\ e \in runs[r].pending
    /\ LET entry == Blobs[runs[r].blob[1]].entries[e]
           fs == IF entry.ok THEN Append(runs[r].fs, VirtualFile(entry))
                 ELSE runs[r].fs
       IN  IF runs[r].pending = {e}
           THEN Render(r, fs)
           ELSE /\ runs' = [runs EXCEPT ![r].pending = @ \ {e}, ![r].fs = fs]
                /\ ev' = Event("decoded", runs[r].id)
                /\ UNCHANGED <<projects, selectedProject, objectUrls>>
    /\ UNCHANGED <<startupVars, loggerVars>>
    /\ UNCHANGED <<variant, svc, activeTab, mounted, refreshes, isLoadingList, apiError,
                   listPending>>

\* one file.async('string') promise of run r settles.  Resolved: its .then
\* stores the file in fs, and when it was the last one pending Promise.all
\* resolves and the run continues in the same task.  Rejected: Promise.all
\* rejects at once and the run goes to its catch block while the other
\* promises are still pending.
DecodeEntry(r, e) ==
    /\ r \in 1..Len(runs)
    /\ runs[r].pc = "decode"
    /\ e \in runs[r].pending
    /\ LET entry == Blobs[runs[r].blob[1]].entries[e]
           fs == Append(runs[r].fs, VirtualFile(entry))
       IN  IF ~entry.ok
           THEN Catch(r, << >>, << >>, MsgBadEntry)
           ELSE IF runs[r].pending = {e}
           THEN Render(r, fs)
           ELSE /\ runs' = [runs EXCEPT ![r].pending = @ \ {e}, ![r].fs = fs]
                /\ ev' = Event("decoded", runs[r].id)
                /\ UNCHANGED <<projects, selectedProject, objectUrls>>
    /\ UNCHANGED <<startupVars, loggerVars>>
    /\ UNCHANGED <<variant, svc, activeTab, mounted, refreshes, isLoadingList, apiError,
                   listPending>>

-----------------------------------------------------------------------------

Next ==
    \/ Mount
    \/ \E tab \in Tabs : SwitchTab(tab)
    \/ RefreshButton
    \/ \E outcome \in ListOutcomes : RefreshDone(outcome)
    \/ \E i \in 1..Len(projects) : Select(i)
    \/ Deselect
    \/ \E i \in 1..Len(projects) : RunButton(i)
    \/ LoadButton
    \/ \E r \in 1..Len(runs) : \E outcome \in DownloadOutcomes :
          DownloadDone(r, outcome)
    \/ \E r \in 1..Len(runs) : LoadDone(r)
    \/ \E r \in 1..Len(runs) : \E e \in runs[r].pending : DecodeEntry(r, e)

\* the program seen from the projects tab: the project list, the selection
\* and the runs of handleRunProject
Spec == Init /\ [][Next]_vars

\* The answers explored for validation and rendering: the listing of two
\* projects, and the archives of PathBlobNames
PathListOutcomes == {o \in ListOutcomes : o.kind = "ok" /\ Len(o.body) = 2}

PathDownloadOutcomes == {[kind |-> "ok", body |-> b] : b \in PathBlobNames}

PathNext ==
    \/ Mount
    \/ \E tab \in Tabs : SwitchTab(tab)
    \/ \E outcome \in PathListOutcomes : RefreshDone(outcome)
    \/ \E i \in 1..Len(projects) : RunButton(i)
    \/ \E r \in 1..Len(runs) : \E outcome \in PathDownloadOutcomes :
          DownloadDone(r, outcome)
    \/ \E r \in 1..Len(runs) : LoadDone(r)
    \/ \E r \in 1..Len(runs) : \E e \in runs[r].pending : DecodeEntry(r, e)

\* the program run on the archives of PathBlobNames: the projects are listed
\* once and run from their cards
PathSpec == Init /\ [][PathNext]_vars

\* Bound of the exploration under fairness: the number of handleRunProject
\* calls that pass the early return.
FairMaxRuns == 1

\* the continuation run r is suspended before: the promise it awaits settles
\* and the rest of handleRunProject runs up to the next await
Continue(r) ==
    /\ r \in 1..Len(runs)
    /\ \/ \E outcome \in DownloadOutcomes : DownloadDone(r, outcome)
       \/ LoadDone(r)
       \/ \E e \in runs[r].pending : DecodeEntry(r, e)

FairNext ==
    \/ Mount
    \/ \E tab \in Tabs : SwitchTab(tab)
    \/ RefreshButton
    \/ \E outcome \in ListOutcomes : RefreshDone(outcome)
    \/ \E i \in 1..Len(projects) : Select(i)
    \/ Deselect
    \/ \E i \in 1..Len(projects) : RunButton(i) /\ Len(runs') <= FairMaxRuns
    \/ LoadButton /\ Len(runs') <= FairMaxRuns
    \/ \E r \in 1..Len(runs) : Continue(r)

\* the program where every pending download and every pending archive or
\* entry decode eventually resolves or rejects, and the event loop then runs
\* the continuation that awaits it
FairSpec ==
    /\ Init
    /\ [][FairNext]_vars
    /\ WF_vars(\E r \in 1..Len(runs) : Continue(r))

\* the answers of the table explored for a lookup and for a history query
QueryOutcomes == {"ok"} \cup QueryFailures

\* the answers of the table explored for an update or an insert
WriteOutcomes == {"ok", "error"}

LoggerNext ==
    \/ Mount
    \/ \E tab \in Tabs : SwitchTab(tab)
    \/ \E text \in Prompts : SetPrompt(text)
    \/ SubmitButton
    \/ \E k \in 1..Len(submits) : \E outcome \in QueryOutcomes :
          LookupServed(k, outcome)
    \/ \E k \in 1..Len(submits) : LookupDone(k)
    \/ \E k \in 1..Len(submits) : \E outcome \in WriteOutcomes :
          WriteServed(k, outcome)
    \/ \E k \in 1..Len(submits) : WriteDone(k)
    \/ TimerFires
    \/ FetchButton
    \/ \E f \in 1..Len(fetches) : \E outcome \in QueryOutcomes :
          HistoryDone(f, outcome)
    \/ OtherInsert

\* the program seen from the logger tab: the note form and the history
\* panel.  The steps of the logger and the steps of the project list and the
\* pipeline write disjoint parts of the state (Mount and init apart), so each
\* part is explored with the others at rest.
LoggerSpec == Init /\ [][LoggerNext]_vars

StartupNext ==
    \/ Mount
    \/ \E tab \in Tabs : SwitchTab(tab)
    \/ RefreshButton
    \/ \E outcome \in ListOutcomes : RefreshDone(outcome)
    \/ FetchButton
    \/ \E f \in 1..Len(fetches) : \E outcome \in QueryOutcomes :
          HistoryDone(f, outcome)
    \/ OtherInsert
    \/ InitDone

\* the startup of the program: the mount effect runs after the first render,
\* every pending listing and history request eventually resolves or rejects,
\* and the event loop then runs the continuation that awaits it
StartupSpec ==
    /\ Init
    /\ [][StartupNext]_vars
    /\ WF_vars(Mount)
    /\ WF_vars(\E outcome \in ListOutcomes : RefreshDone(outcome))
    /\ WF_vars(\E f \in 1..Len(fetches) : \E outcome \in QueryOutcomes :
                  HistoryDone(f, outcome))
    /\ WF_vars(InitDone)

-----------------------------------------------------------------------------
(* Vocabulary of the properties *)

IsPrefix(a, b) == Len(a) <= Len(b) /\ SubSeq(b, 1, Len(a)) = a

IsStrictPrefix(a, b) == Len(a) < Len(b) /\ IsPrefix(a, b)

\* the positions of the list records with this id
Records(list, id) == {i \in 1..Len(list) : list[i].id = id}

\* the invocations of handleRunProject for this id that have not made their
\* final write
InFlight(id) == {r \in 1..Len(runs) : runs[r].id = id /\ runs[r].pc # "done"}

\* this step is a step of run r / the last step of run r
RunStep(r) == r \in 1..Len(runs) /\ runs'[r] # runs[r]
RunEnds(r) == RunStep(r) /\ runs'[r].pc = "done"

\* this step is the first step of a new run
RunStarts == Len(runs') = Len(runs) + 1

\* this step called updateLocal / update
Writes == ev'.kind = "write" /\ ev' # ev

\* this step is a run request from the UI for project id
Requests(id) ==
    /\ ev' # ev
    /\ ev'.id = id
    /\ \/ ev'.kind \in {"rejected", "return"}
       \/ ev'.kind = "write" /\ RunStarts

\* the archive decodes: loadAsync resolves and so does every entry
Decodes(blob) ==
    /\ Blobs[blob].wellFormed
    /\ \A e \in FileEntries(blob) : Blobs[blob].entries[e].ok

\* the archive has a file path ending in suffix
HasPath(blob, suffix) ==
    \E e \in FileEntries(blob) : EndsWith(Blobs[blob].entries[e].path, suffix)

\* the archive has a file path ending in index.html, in any letter case
HasPathAnyCase(blob, suffix) ==
    \E e \in FileEntries(blob) :
        EndsWith(ToLowerCase(Blobs[blob].entries[e].path), suffix)

\* the handles URL.createObjectURL has returned
Handles(urls) == {ObjectUrl(n) : n \in 1..Len(urls)}

\* the '!' lines among the lines a step appended to a log
NewBangs(before, after) ==
    {k \in (Len(before) + 1)..Len(after) : StartsWithBang(after[k])}

\* the final slash-separated segment of a path
LastSegment(path) ==
    LET slashes == {i \in 1..Len(path) : path[i] = "/"}
        last    == IF slashes = {} THEN 0
                   ELSE CHOOSE i \in slashes : \A j \in slashes : i >= j
    IN  SubSeq(path, last + 1, Len(path))

\* the status of the final write of the step just taken
LastWrote == ev'.wrote[Len(ev'.wrote)]

-----------------------------------------------------------------------------
(* C1 *)

\* the status changes the claim allows
C1_Allowed ==
    { <<"available", "downloading">>, <<"downloading", "extracting">>,
      <<"extracting", "running">>, <<"downloading", "error">>,
      <<"extracting", "error">>, <<"running", "downloading">>,
      <<"error", "downloading">>, <<"extracting", "validating">>,
      <<"validating", "running">>, <<"validating", "error">> }

\* C1: every change of the status of a project of the list is one of the
\* changes of the fixed sequence (C1_Allowed); no other change occurs.
C1_OnlyListedTransitions ==
    [][\A i \in 1..Len(projects) : \A j \in 1..Len(projects') :
          (projects[i].id = projects'[j].id
              /\ projects[i].status # projects'[j].status)
          => <<projects[i].status, projects'[j].status>> \in C1_Allowed]_vars

-----------------------------------------------------------------------------
(* C2 *)

\* C2: for every project id at most one run of handleRunProject is in
\* flight at any time.
C2_OneRunPerProject ==
    \A r1 \in 1..Len(runs) : \A r2 \in 1..Len(runs) :
        (runs[r1].id = runs[r2].id /\ runs[r1].pc # "done" /\ runs[r2].pc # "done")
        => r1 = r2

-----------------------------------------------------------------------------
(* C3 *)

\* C3: a run request from the UI for a project whose status in the list is
\* running or downloading is rejected: no run starts and the project list,
\* selectedProject (status, logs, preview handle) and the blob registry are
\* unchanged.
C3_BusyRequestRejected ==
    [][\A i \in 1..Len(projects) :
          (projects[i].status \in {"running", "downloading"}
              /\ Requests(projects[i].id))
          => /\ ev'.kind = "rejected"
             /\ UNCHANGED <<projects, selectedProject, runs, objectUrls>>]_vars

\* a request has just been rejected for a listed project that is downloading
\* and has a run in flight
C3_Witness ==
    /\ ev.kind = "rejected"
    /\ \E i \in 1..Len(projects) :
          /\ projects[i].id = ev.id
          /\ projects[i].status = "downloading"
          /\ InFlight(ev.id) # {}

-----------------------------------------------------------------------------
(* C4 *)

\* the project's record after the run's last step is running and carries a
\* handle URL.createObjectURL returned
C4_EndsRunning(r) ==
    \A j \in Records(projects', runs[r].id) :
        /\ projects'[j].status = "running"
        /\ "previewUrl" \in DOMAIN projects'[j]
        /\ projects'[j].previewUrl \in Handles(objectUrls')

\* C4 as claimed: every run whose download succeeds and whose archive is
\* well-formed and has a path ending in index.html ends with the project
\* running and a preview handle attached.
C4_IndexSuffices ==
    [][\A r \in 1..Len(runs) :
          (RunEnds(r) /\ runs[r].blob # << >>
              /\ Decodes(runs[r].blob[1])
              /\ HasPath(runs[r].blob[1], IndexHtml))
          => C4_EndsRunning(r)]_vars

\* C4 amended: as C4_IndexSuffices, where in the validating iterations
\* (part_000, part_001) the archive must also have a path ending in
\* package.json.
C4_IndexAndPolicySuffice ==
    [][\A r \in 1..Len(runs) :
          (RunEnds(r) /\ runs[r].blob # << >>
              /\ Decodes(runs[r].blob[1])
              /\ HasPath(runs[r].blob[1], IndexHtml)
              /\ (variant # "App" => HasPath(runs[r].blob[1], PackageJson)))
          => C4_EndsRunning(r)]_vars

\* a run of the validating iteration has just ended running, with its handle
\* on the list record
C4_Witness ==
    /\ variant = "part_000"
    /\ ev.kind = "write"
    /\ ev.wrote = <<"validating", "running">>
    /\ \E i \in Records(projects, ev.id) :
          /\ projects[i].status = "running"
          /\ projects[i].previewUrl = ObjectUrl(Len(objectUrls))

-----------------------------------------------------------------------------
(* C5 *)

\* a record in error that holds the missing-entry-point line and no handle
C5_ErrorNoPreview(rec) ==
    /\ rec.status = "error"
    /\ \E k \in 1..Len(rec.logs) : rec.logs[k] = LineError(MsgNoIndex)
    /\ "previewUrl" \notin DOMAIN rec

\* C5: every run whose decoded archive has no path ending in index.html ends
\* with the project in error, a missing-entry-point line in its log, and no
\* preview handle on the record, in the list and as selectedProject.
C5_NoIndexNoPreview ==
    [][\A r \in 1..Len(runs) :
          (RunEnds(r) /\ runs[r].blob # << >>
              /\ Decodes(runs[r].blob[1])
              /\ ~HasPathAnyCase(runs[r].blob[1], IndexHtml))
          => /\ \A j \in Records(projects', runs[r].id) :
                   C5_ErrorNoPreview(projects'[j])
             /\ (selectedProject' # << >> /\ selectedProject'[1].id = runs[r].id)
                   => C5_ErrorNoPreview(selectedProject'[1])]_vars

-----------------------------------------------------------------------------
(* C6 *)

\* C6: a run whose downloaded bytes are not a well-formed zip fails at the
\* decode step and ends in error: its step after the download is its last,
\* it writes status error only (never validating or running), registers no
\* preview handle and writes no fileSystem to the project's record.
C6_NotZipEndsInError ==
    [][\A r \in 1..Len(runs) :
          (RunStep(r) /\ runs[r].blob # << >>
              /\ ~Blobs[runs[r].blob[1]].wellFormed)
          => /\ runs'[r].pc = "done"
             /\ ev' = WriteEvent(r, runs[r].id, <<"error">>)
             /\ objectUrls' = objectUrls
             /\ \A j \in Records(projects', runs[r].id) :
                   /\ projects'[j].status = "error"
                   /\ "fileSystem" \in DOMAIN projects'[j]
                         => /\ "fileSystem" \in DOMAIN projects[j]
                            /\ projects'[j].fileSystem = projects[j].fileSystem]_vars

\* a run has just ended in error on the message of the rejected loadAsync
C6_Witness ==
    /\ ev.kind = "write"
    /\ ev.wrote = <<"error">>
    /\ runs[ev.run].pc = "done"
    /\ \E i \in Records(projects, ev.id) :
          projects[i].logs[Len(projects[i].logs)] = LineError(MsgNotZip)

-----------------------------------------------------------------------------
(* C7 *)

\* C7: a run that fails at any step is caught inside handleRunProject: the
\* failing step is the run's last (no retry, no new invocation), it appends
\* to the project's log exactly one line beginning with '!' and leaves the
\* status error; and a run's steps that do not fail append no such line, so
\* that a failed run has appended exactly one.
C7_OneErrorLineNoRetry ==
    [][\A r \in 1..Len(runs) : RunStep(r) =>
          IF ev'.kind = "write" /\ ev'.wrote[Len(ev'.wrote)] = "error"
          THEN /\ runs'[r].pc = "done"
               /\ ~RunStarts
               /\ \A j \in Records(projects, runs[r].id) :
                     /\ IsStrictPrefix(projects[j].logs, projects'[j].logs)
                     /\ Cardinality(NewBangs(projects[j].logs, projects'[j].logs)) = 1
                     /\ StartsWithBang(projects'[j].logs[Len(projects'[j].logs)])
                     /\ projects'[j].status = "error"
          ELSE \A j \in Records(projects, runs[r].id) :
                  /\ IsPrefix(projects[j].logs, projects'[j].logs)
                  /\ NewBangs(projects[j].logs, projects'[j].logs) = {}]_vars

\* a run has just ended on a failed entry decode, with its '!' line last in
\* the log of the listed project
C7_Witness ==
    /\ ev.kind = "write"
    /\ ev.wrote = <<"error">>
    /\ \E i \in Records(projects, ev.id) :
          /\ projects[i].status = "error"
          /\ projects[i].logs[Len(projects[i].logs)] = LineError(MsgBadEntry)

-----------------------------------------------------------------------------
(* C8 *)

\* C8: every status write of a run extends the project's log: the log before
\* the write is a strict prefix of the log after it, in the list record and
\* in selectedProject when it has the same id.
C8_WritesExtendLog ==
    [][Writes =>
          /\ Len(projects') = Len(projects)
          /\ \A i \in Records(projects, ev'.id) :
                IsStrictPrefix(projects[i].logs, projects'[i].logs)
          /\ (selectedProject # << >> /\ selectedProject[1].id = ev'.id)
                => /\ selectedProject' # << >>
                   /\ IsStrictPrefix(selectedProject[1].logs,
                                     selectedProject'[1].logs)]_vars

\* a run has just written to a project that is listed and selected, and
\* whose log held lines before
C8_Witness ==
    /\ ev.kind = "write"
    /\ selectedProject # << >>
    /\ selectedProject[1].id = ev.id
    /\ Len(selectedProject[1].logs) >= 3
    /\ \E i \in Records(projects, ev.id) : Len(projects[i].logs) >= 3

-----------------------------------------------------------------------------
(* C9 *)

\* C9: a project's log is reset only when a new run begins for it:
\* the step that starts a run leaves the log holding only that run's line,
\* and every other step leaves the old log as a prefix of the new one.
C9_ResetOnlyAtRunStart ==
    [][\A i \in 1..Len(projects) : \A j \in 1..Len(projects') :
          projects[i].id = projects'[j].id =>
             IF Writes /\ RunStarts /\ ev'.id = projects[i].id
             THEN projects'[j].logs = <<LineDownloading(runs'[Len(runs')].fileName)>>
             ELSE IsPrefix(projects[i].logs, projects'[j].logs)]_vars

-----------------------------------------------------------------------------
(* C10 *)

\* C10: a write of a run started for project P changes only P's record:
\* every list record with another id is unchanged, and selectedProject is
\* unchanged when it is null or has another id.
C10_WritesOnlyOwnRecord ==
    [][Writes =>
          /\ Len(projects') = Len(projects)
          /\ \A i \in 1..Len(projects) :
                projects[i].id # ev'.id => projects'[i] = projects[i]
          /\ (selectedProject = << >> \/ selectedProject[1].id # ev'.id)
                => selectedProject' = selectedProject]_vars

\* a run has just written while a run of another project is in flight and
\* another project is selected
C10_Witness ==
    /\ ev.kind = "write"
    /\ \E r \in 1..Len(runs) : runs[r].id # ev.id /\ runs[r].pc # "done"
    /\ InFlight(ev.id) # {}
    /\ selectedProject # << >>
    /\ selectedProject[1].id # ev.id
    /\ \E i \in 1..Len(projects) : projects[i].id # ev.id

-----------------------------------------------------------------------------
(* C11 *)

\* C11: deselecting the selected project does not cancel its run: the
\* deselection changes neither the project list nor any invocation (each
\* stays suspended at the await it was at, with its continuation pending),
\* and every later write made while selectedProject is null sets the status
\* it writes on the project's list record and leaves selectedProject null.
C11_DeselectKeepsRun ==
    [][/\ (ev'.kind = "deselect" /\ ev' # ev)
            => /\ projects' = projects
               /\ runs' = runs
               /\ objectUrls' = objectUrls
               /\ selectedProject' = << >>
       /\ (Writes /\ selectedProject = << >>)
            => /\ selectedProject' = << >>
               /\ \A j \in Records(projects', ev'.id) :
                     projects'[j].status = ev'.wrote[Len(ev'.wrote)]]_vars

\* the selected project has just been deselected while a run of it is
\* suspended at its archive load
C11_Witness ==
    /\ ev.kind = "deselect"
    /\ selectedProject = << >>
    /\ \E r \in InFlight(ev.id) : runs[r].pc = "load"
    /\ \E i \in Records(projects, ev.id) : projects[i].status = "extracting"

-----------------------------------------------------------------------------
(* C12 *)

\* the steps that are UI actions or listing completions, not run steps
C12_UiKinds ==
    {"mount", "tab", "refresh", "listed", "listFailed", "select", "deselect",
     "rejected", "return"}

\* C12: when every pending download and decode eventually settles, every
\* started run eventually finishes (again and again every invocation made so
\* far is finished); the step that finishes it writes status
\* running or status error; and no UI action (selection, deselection, tab
\* switch, list refresh, a further run request) changes an invocation that
\* has started.
C12_StartedRunsFinish ==
    /\ []<>(\A r \in 1..Len(runs) : runs[r].pc = "done")
    /\ [][/\ \A r \in 1..Len(runs) : RunEnds(r) =>
                /\ ev'.kind = "write"
                /\ ev'.run = r
                /\ ev'.wrote[Len(ev'.wrote)] \in {"running", "error"}
          /\ (ev'.kind \in C12_UiKinds \/ RunStarts)
                => \A r \in 1..Len(runs) : runs'[r] = runs[r]]_vars

\* a run that was in flight when the list was refreshed, listed anew and
\* its project deselected has made its final write
C12_Witness ==
    /\ ev.kind = "write"
    /\ ev.wrote[Len(ev.wrote)] \in {"running", "error"}
    /\ runs[ev.run].pc = "done"
    /\ refreshes = 1
    /\ ~listPending
    /\ \E i \in Records(projects, ev.id) :
          /\ Len(projects[i].logs) = 2
          /\ projects[i].logs[1] = SyncLine

-----------------------------------------------------------------------------
(* C13 *)

\* this step of run r validates or renders: it writes status validating or
\* running, creates an object URL or hands a file mapping to a record
C13_Proceeds(r) ==
    \/ \E k \in 1..Len(ev'.wrote) : ev'.wrote[k] \in {"validating", "running"}
    \/ objectUrls' # objectUrls
    \/ \E j \in 1..Len(projects') :
          /\ "fileSystem" \in DOMAIN projects'[j]
          /\ j \in 1..Len(projects) /\ "fileSystem" \in DOMAIN projects[j]
                => projects'[j].fileSystem # projects[j].fileSystem

\* the archive has a file entry whose decode fails
C13_HasBadEntry(blob) ==
    /\ Blobs[blob].wellFormed
    /\ \E e \in FileEntries(blob) : ~Blobs[blob].entries[e].ok

\* C13: the entry decodes of a run are joined: a step of the run validates
\* or renders only when no entry decode of the run stays pending (the one
\* settling in that step was the last) and every file entry is in fs; and a
\* run of an archive with an entry whose decode fails ends in error, with no
\* object URL, whatever the order in which its entries settle.
C13_JoinedBeforeValidation ==
    [][\A r \in 1..Len(runs) : RunStep(r) =>
          /\ C13_Proceeds(r)
                => /\ runs[r].blob # << >>
                   /\ Cardinality(runs[r].pending) <= 1
                   /\ runs'[r].pending = {}
                   /\ Len(runs'[r].fs) = Cardinality(FileEntries(runs[r].blob[1]))
                   /\ \A e \in FileEntries(runs[r].blob[1]) :
                         Blobs[runs[r].blob[1]].entries[e].ok
          /\ (RunEnds(r) /\ runs[r].blob # << >>
                  /\ C13_HasBadEntry(runs[r].blob[1]))
                => /\ ev' = WriteEvent(r, runs[r].id, <<"error">>)
                   /\ runs'[r].url = 0
                   /\ objectUrls' = objectUrls
                   /\ \A j \in Records(projects', runs[r].id) :
                         projects'[j].status = "error"]_vars

\* a run of the archive with a failing entry has just ended in error on that
\* entry, after its other entry had been decoded into fs
C13_Witness ==
    /\ ev.kind = "write"
    /\ ev.wrote = <<"error">>
    /\ runs[ev.run].pc = "done"
    /\ runs[ev.run].blob = <<"badEntry">>
    /\ \E i \in Records(projects, ev.id) :
          projects[i].logs[Len(projects[i].logs)] = LineError(MsgBadEntry)

-----------------------------------------------------------------------------
(* C14 *)

\* C14: for an archive with N file entries whose decodes all succeed, the fs
\* that the join leaves holds exactly N keys, one per entry path, each with
\* that entry's own content, in whatever order the decodes completed.
C14_JoinedMapping ==
    \A r \in 1..Len(runs) :
        (runs[r].pc = "done" /\ runs[r].blob # << >> /\ Decodes(runs[r].blob[1]))
        => LET blob == Blobs[runs[r].blob[1]]
               fs   == runs[r].fs
           IN  /\ Len(fs) = Cardinality(FileEntries(runs[r].blob[1]))
               /\ \A e \in FileEntries(runs[r].blob[1]) :
                     Cardinality({i \in 1..Len(fs) :
                         fs[i].path = blob.entries[e].path}) = 1
               /\ \A i \in 1..Len(fs) :
                     \E e \in FileEntries(runs[r].blob[1]) :
                         /\ fs[i].path = blob.entries[e].path
                         /\ fs[i].content = blob.entries[e].content

\* two runs of the same two-file archive have joined their decodes, which
\* completed in different orders
C14_Witness ==
    \E r1 \in 1..Len(runs) : \E r2 \in 1..Len(runs) :
        /\ runs[r1].pc = "done" /\ runs[r2].pc = "done"
        /\ runs[r1].blob = <<"twoIndex">> /\ runs[r2].blob = <<"twoIndex">>
        /\ Len(runs[r1].fs) = 2
        /\ Len(runs[r2].fs) = 2
        /\ runs[r1].fs # runs[r2].fs

-----------------------------------------------------------------------------
(* C15 *)

\* the archive has a file whose final path segment is index.html, compared
\* case-insensitively
C15_HasEntryPoint(blob) ==
    \E e \in FileEntries(blob) :
        ToLowerCase(LastSegment(Blobs[blob].entries[e].path)) = IndexHtml

\* C15: validation passes if and only if a decoded path's final segment
\* equals index.html case-insensitively: a run whose archive decodes ends
\* running when the archive has such a path and in error when it has none.
C15_PassesIffFinalSegment ==
    [][\A r \in 1..Len(runs) :
          (RunEnds(r) /\ runs[r].blob # << >> /\ Decodes(runs[r].blob[1]))
          => (LastWrote = "running" <=> C15_HasEntryPoint(runs[r].blob[1]))]_vars

-----------------------------------------------------------------------------
(* C16 *)

\* C16: a run that passes validation renders the first key of fs, in
\* insertion order, that satisfies the entry-point test: such a key exists,
\* the blob registered by the run holds exactly that key's content, and the
\* handle written to the project is the handle of that blob.
C16_FirstMatchingKey ==
    [][\A r \in 1..Len(runs) :
          (RunEnds(r) /\ LastWrote = "running")
          => LET fs   == runs'[r].fs
                 hits == {i \in 1..Len(fs) : IsIndexKey(fs[i].path)}
             IN  /\ hits # {}
                 /\ \E i \in hits :
                       /\ \A j \in hits : i <= j
                       /\ objectUrls' = Append(objectUrls, HtmlBlob(fs[i].content))
                 /\ runs'[r].url = Len(objectUrls')
                 /\ \A j \in Records(projects', runs[r].id) :
                       projects'[j].previewUrl = ObjectUrl(runs'[r].url)]_vars

\* a run of the archive with two entry points has rendered lib/index.html,
\* the second in the archive, whose decode completed first
C16_Witness ==
    /\ ev.kind = "write"
    /\ ev.wrote[Len(ev.wrote)] = "running"
    /\ runs[ev.run].blob = <<"twoIndex">>
    /\ Keys(runs[ev.run].fs) = <<PathLibIndex, PathAppIndex>>
    /\ objectUrls[runs[ev.run].url] = HtmlBlob("<p>y</p>")

-----------------------------------------------------------------------------
(* C17 *)

\* C17: two finished runs of the same project on the same archive bytes have
\* the same terminal status (both created a preview or neither did), and
\* when they created previews the contents of the two are equal.
C17_SameBytesSameResult ==
    \A r1 \in 1..Len(runs) : \A r2 \in 1..Len(runs) :
        (/\ runs[r1].pc = "done" /\ runs[r2].pc = "done"
         /\ runs[r1].id = runs[r2].id
         /\ runs[r1].blob # << >> /\ runs[r1].blob = runs[r2].blob)
        => /\ (runs[r1].url = 0) <=> (runs[r2].url = 0)
           /\ runs[r1].url # 0
                 => objectUrls[runs[r1].url].parts = objectUrls[runs[r2].url].parts

-----------------------------------------------------------------------------
(* C18 *)

\* C18: a run whose selected entry-point key has empty content ends in
\* error, with an error line in the log and no preview handle.
C18_EmptyEntryPointFails ==
    [][\A r \in 1..Len(runs) :
          (/\ RunEnds(r)
           /\ IndexKey(runs'[r].fs) # 0
           /\ runs'[r].fs[IndexKey(runs'[r].fs)].content = "")
          => /\ LastWrote = "error"
             /\ runs'[r].url = 0
             /\ \A j \in Records(projects', runs[r].id) :
                   /\ projects'[j].status = "error"
                   /\ StartsWithBang(projects'[j].logs[Len(projects'[j].logs)])
                   /\ "previewUrl" \notin DOMAIN projects'[j]]_vars

-----------------------------------------------------------------------------
(* C19 *)

\* C19: a non-success HTTP status of the listing request is a listing
\* failure: the continuation of refreshProjectList sets apiError and leaves
\* the project list as it was; and a non-success HTTP status of the download
\* request ends the run in error.
C19_HttpStatusIsFailure ==
    [][/\ \A o \in ListOutcomes :
            (o.kind = "http" /\ RefreshDone(o))
            => /\ apiError' # << >>
               /\ projects' = projects
       /\ \A r \in 1..Len(runs) : \A o \in DownloadOutcomes :
            (o.kind = "http" /\ DownloadDone(r, o))
            => /\ runs'[r].pc = "done"
               /\ LastWrote = "error"
               /\ \A j \in Records(projects', runs[r].id) :
                     projects'[j].status = "error"]_vars

-----------------------------------------------------------------------------
(* C20 *)

\* C20: a listing attempt that fails (a non-success status or no response)
\* sets apiError, and leaves the project list and selectedProject unchanged;
\* every completed refresh sets isLoadingList back to false and leaves
\* apiError non-null exactly when it failed.
C20_FailedListingFrame ==
    [][\A o \in ListOutcomes : RefreshDone(o) =>
          /\ isLoadingList' = FALSE
          /\ o.kind # "ok"
                => /\ apiError' # << >>
                   /\ projects' = projects
                   /\ selectedProject' = selectedProject
                   /\ runs' = runs
          /\ (apiError' # << >>) <=> (o.kind # "ok")]_vars

-----------------------------------------------------------------------------
(* C21 *)

\* C21: note submission is an upsert keyed by session id: after any sequence
\* of submits of this session, also ones whose lookup or write fails, the
\* table holds at most one row with its session id.
C21_OneRowPerSession == Cardinality(RowsOf(table, SessionId)) <= 1

-----------------------------------------------------------------------------
(* C22 *)

\* the record is not running, or carries a handle URL.createObjectURL returned
C22_Attached(rec, urls) ==
    rec.status = "running"
        => "previewUrl" \in DOMAIN rec /\ rec.previewUrl \in Handles(urls)

\* C22: every project record whose status is running, in the project list
\* and as selectedProject, has a preview handle attached; and a write of
\* status running creates an object URL in the same step and writes that
\* fresh handle to the record.
C22_RunningHasPreview ==
    [][/\ \A j \in 1..Len(projects') : C22_Attached(projects'[j], objectUrls')
       /\ selectedProject' # << >> => C22_Attached(selectedProject'[1], objectUrls')
       /\ (Writes /\ LastWrote = "running")
            => /\ Len(objectUrls') = Len(objectUrls) + 1
               /\ \A j \in Records(projects', ev'.id) :
                     projects'[j].previewUrl = ObjectUrl(Len(objectUrls'))
               /\ (selectedProject' # << >> /\ selectedProject'[1].id = ev'.id)
                     => selectedProject'[1].previewUrl = ObjectUrl(Len(objectUrls'))]_vars

\* a run has just written status running with the second object URL of the
\* page to a project that is listed and selected
C22_Witness ==
    /\ ev.kind = "write"
    /\ ev.wrote[Len(ev.wrote)] = "running"
    /\ Len(objectUrls) = 2
    /\ selectedProject # << >>
    /\ selectedProject[1].id = ev.id
    /\ selectedProject[1].status = "running"
    /\ selectedProject[1].previewUrl = ObjectUrl(2)
    /\ \E j \in Records(projects, ev.id) :
          projects[j].status = "running" /\ projects[j].previewUrl = ObjectUrl(2)

-----------------------------------------------------------------------------
(* C23 *)

\* C23: the iframe is shown only while the selected project's status is
\* running: in no reachable state is it shown for a selectedProject whose
\* status is available, downloading, extracting, validating or error.
C23_IframeOnlyWhileRunning ==
    (activeTab = "projects" /\ selectedProject # << >>
        /\ IframeShown(selectedProject[1]))
    => selectedProject[1].status = "running"

-----------------------------------------------------------------------------
(* C24 *)

\* the archive has a file path ending in index.html and one ending in
\* package.json
C24_HasBoth(blob) == HasPath(blob, IndexHtml) /\ HasPath(blob, PackageJson)

\* C24: in the iterations with a validating step, a step of a run writes
\* status running only if the archive it decoded has a path ending in
\* index.html and a path ending in package.json; a run whose archive decodes
\* and lacks either ends in error after its validating write, and creates no
\* object URL.
C24_BothRequired ==
    [][variant # "App" =>
          \A r \in 1..Len(runs) : RunStep(r) =>
             /\ (\E k \in 1..Len(ev'.wrote) : ev'.wrote[k] = "running")
                   => /\ runs[r].blob # << >>
                      /\ C24_HasBoth(runs[r].blob[1])
             /\ (RunEnds(r) /\ runs[r].blob # << >> /\ Decodes(runs[r].blob[1])
                     /\ ~C24_HasBoth(runs[r].blob[1]))
                   => /\ ev'.wrote = <<"validating", "error">>
                      /\ runs'[r].url = 0
                      /\ objectUrls' = objectUrls
                      /\ \A j \in Records(projects', runs[r].id) :
                            projects'[j].status = "error"]_vars

\* a run of the validating iteration on the archive that has a package.json
\* and no path ending in index.html has just ended in error, after a run on
\* the archive that has index.html files and no package.json did
C24_Witness ==
    /\ variant = "part_000"
    /\ ev.kind = "write"
    /\ ev.wrote = <<"validating", "error">>
    /\ runs[ev.run].blob = <<"bak">>
    /\ \E r \in 1..Len(runs) :
          runs[r].pc = "done" /\ runs[r].blob = <<"twoIndex">> /\ runs[r].url = 0
    /\ runs[ev.run].url = 0
    /\ \E j \in Records(projects, ev.id) :
          /\ projects[j].status = "error"
          /\ projects[j].logs[Len(projects[j].logs)] = LineError(MsgNoIndex)

-----------------------------------------------------------------------------
(* C25 *)

\* the lines that go with a status written by a step of this run; `last` is
\* the line the step appended last
C25_LinesOf(run, status, last) ==
    CASE status = "downloading" -> <<LineDownloading(run.fileName)>>
      [] status = "extracting"  -> <<LineExtracting(run.blob[1])>>
      [] status = "validating"  -> <<LineValidating>>
      [] status = "running"     -> LinesRunning
      [] OTHER                  -> <<last>>

RECURSIVE C25_Expected(_, _, _)
C25_Expected(run, wrote, last) ==
    IF wrote = << >> THEN << >>
    ELSE C25_LinesOf(run, Head(wrote), last) \o C25_Expected(run, Tail(wrote), last)

\* the statuses a step may write when it takes a run from pc to pc2: the
\* pipeline order, with the error write after any prefix of it and nothing
\* after the rendering or the error write.  joined: every file entry of the
\* archive has been decoded.
C25_InOrder(pc, pc2, wrote, joined) ==
    LET validating == IF variant = "App" THEN << >> ELSE <<"validating">>
    IN  \/ pc = "start" /\ pc2 = "download" /\ wrote = <<"downloading">>
        \/ pc = "download" /\ pc2 = "load" /\ wrote = <<"extracting">>
        \/ pc \in {"load", "decode"} /\ pc2 = "decode" /\ wrote = << >>
        \/ /\ pc \in {"load", "decode"} /\ pc2 = "done" /\ joined
           /\ wrote \in {validating \o <<"running">>, validating \o <<"error">>}
        \/ pc \in {"download", "load", "decode"} /\ pc2 = "done" /\ wrote = <<"error">>

\* the lines a step appended to a log
C25_Appended(before, after) == SubSeq(after, Len(before) + 1, Len(after))

\* C25: the lines a run appends to the project's log come in pipeline order:
\* the download line when the run starts, the extracting line in the step
\* after the download returned, the validating line (validating iterations)
\* only once every entry is decoded, and last either the rendering lines or
\* one '!' error line; the error line may follow any prefix, and a run that
\* has written its rendering or error line takes no further step.
C25_LogInPipelineOrder ==
    [][\A r \in 1..Len(runs') :
          LET started == r \in 1..Len(runs)
              run     == runs'[r]
              id      == run.id
              wrote   == IF ev'.kind = "write" /\ ev'.run = r THEN ev'.wrote
                         ELSE << >>
          IN  (~started \/ RunStep(r)) =>
                /\ C25_InOrder(IF started THEN runs[r].pc ELSE "start", run.pc,
                               wrote,
                               /\ run.blob # << >>
                               /\ Len(run.fs) = Cardinality(FileEntries(run.blob[1])))
                /\ \A j \in Records(projects, id) :
                      LET lines == C25_Appended(projects[j].logs, projects'[j].logs)
                      IN  /\ IsPrefix(projects[j].logs, projects'[j].logs)
                          /\ lines = C25_Expected(run, wrote, projects'[j].logs[Len(projects'[j].logs)])
                          /\ \A k \in 1..Len(lines) :
                                StartsWithBang(lines[k])
                                    <=> (k = Len(lines) /\ LastWrote = "error")
                /\ (started /\ runs[r].pc = "done") => runs'[r] = runs[r]]_vars

\* a run of the validating iteration has just written its rendering lines
\* and the log of its project holds the whole sequence
C25_Witness ==
    /\ variant = "part_000"
    /\ ev.kind = "write"
    /\ ev.wrote = <<"validating", "running">>
    /\ \E j \in Records(projects, ev.id) :
          projects[j].logs =
              <<SyncLine, LineDownloading(runs[ev.run].fileName),
                LineExtracting(runs[ev.run].blob[1]), LineValidating>>
                  \o LinesRunning

-----------------------------------------------------------------------------
(* C26 *)

\* C26: at startup isInitializing eventually becomes false, whatever the
\* outcomes of the history and the listing requests; the step that sets it
\* false comes after the fetchHistory call and the refreshProjectList call
\* of init have both settled; and once false it is never true again.
C26_InitializingEnds ==
    /\ <>(~isInitializing)
    /\ [][/\ (isInitializing /\ ~isInitializing')
               => /\ mounted
                  /\ \A f \in 1..Len(fetches) : ~fetches[f].init
                  /\ ~listPending \/ refreshes > 0
          /\ ~isInitializing => ~isInitializing']_vars

\* App.tsx has finished initializing although the listing request of init
\* failed
C26_Witness ==
    /\ variant = "App"
    /\ ev.kind = "initDone"
    /\ ~isInitializing
    /\ refreshes = 0
    /\ apiError # << >>
    /\ projects = << >>

-----------------------------------------------------------------------------
(* C27 *)

\* the two records agree on status, logs and preview handle
C27_Same(a, b) ==
    /\ a.status = b.status
    /\ a.logs = b.logs
    /\ ("previewUrl" \in DOMAIN a) <=> ("previewUrl" \in DOMAIN b)
    /\ "previewUrl" \in DOMAIN a => a.previewUrl = b.previewUrl

\* C27: whenever selectedProject is non-null the list holds a project with
\* the same id, and that record has the same status, logs and preview handle
\* as selectedProject.
C27_SelectedMirrorsList ==
    selectedProject # << >> =>
        /\ Records(projects, selectedProject[1].id) # {}
        /\ \A j \in Records(projects, selectedProject[1].id) :
              C27_Same(projects[j], selectedProject[1])

-----------------------------------------------------------------------------
(* C28 *)

\* C28: a project's status in the list is downloading, extracting or
\* validating if and only if a run for its id is in flight.
C28_TransientIffInFlight ==
    \A j \in 1..Len(projects) :
        projects[j].status \in {"downloading", "extracting", "validating"}
            <=> InFlight(projects[j].id) # {}

-----------------------------------------------------------------------------
(* C29 *)

\* C29: whenever a note submit is in flight, dbStatus is LOADING, so that the
\* submit button is disabled and at most one submit is in flight; also when
\* the reset timer of an earlier submit fires during a later one.
C29_InFlightMeansLoading ==
    submits # << >> =>
        /\ dbStatus = "loading"
        /\ SubmitDisabled
        /\ Len(submits) = 1

-----------------------------------------------------------------------------
(* C30 *)

\* the positions of the terminal statuses among the statuses a step wrote
C30_Terminal(wrote) ==
    {k \in 1..Len(wrote) : wrote[k] \in {"running", "error"}}

\* C30: a run makes one terminal write (status running or status error, not
\* both), in the step that finishes it and as the last write of that step;
\* a finished run takes no further step: it writes to no record and appends
\* no line, and every object URL is created by the last step of a run that
\* writes running.
C30_OneTerminalWrite ==
    [][/\ \A r \in 1..Len(runs') :
            LET wrote == IF ev'.kind = "write" /\ ev'.run = r THEN ev'.wrote
                         ELSE << >>
            IN  /\ (r \in 1..Len(runs) /\ runs[r].pc = "done")
                      => runs'[r] = runs[r] /\ wrote = << >>
                /\ (r \notin 1..Len(runs) \/ RunStep(r))
                      => /\ C30_Terminal(wrote) \subseteq {Len(wrote)}
                         /\ (C30_Terminal(wrote) # {}) <=> (runs'[r].pc = "done")
       /\ objectUrls' # objectUrls
            => /\ Len(objectUrls') = Len(objectUrls) + 1
               /\ \E r \in 1..Len(runs) :
                     RunEnds(r) /\ ev'.run = r /\ LastWrote = "running"
       /\ (projects' # projects /\ ev'.kind \notin {"listed", "listFailed"})
            => ev'.kind = "write" /\ ev'.run \in 1..Len(runs')
                  /\ (ev'.run \in 1..Len(runs) => runs[ev'.run].pc # "done")]_vars

\* a run has just written to a project on which an earlier run has made its
\* terminal write
C30_Witness ==
    /\ ev.kind = "write"
    /\ \E r \in 1..Len(runs) :
          /\ r # ev.run
          /\ runs[r].id = ev.id
          /\ runs[r].pc = "done"
    /\ \E j \in Records(projects, ev.id) :
          /\ projects[j].status = ev.wrote[Len(ev.wrote)]
          /\ Len(projects[j].logs) >= 4

====
